---- MODULE Spec2Model ----
(***************************************************************************)
(* Left-Right ordered linked list (LROrderedLinkedList.h): two mirrors of  *)
(* a sequential set, a selector naming the mirror readers consult, a       *)
(* version index naming the array of reader counters in use, and a mutex   *)
(* that serialises add() and remove().  Every atomic access of the code    *)
(* (load, store, fetch_add) is one step; a call into a mirror              *)
(* (LinkedListSet) is not atomic and takes a begin step and an end step.   *)
(***************************************************************************)
EXTENDS Integers, FiniteSets

\* ------------------------------------------------------------------ bounds
NumWriters == 2      \* threads calling add() and remove()
NumReaders == 2      \* threads calling contains()
MaxKey == 2          \* keys are 1..MaxKey
NumCores == 2        \* std::thread::hardware_concurrency() of the machine

\* ------------------------------------------------------- program constants
READS_ON_LEFT == 0
READS_ON_RIGHT == 1
LROLL_CACHE_LINE == 64
LROLL_HASH_RATIO == 3
SizeofInt == 4
LROLLS_COUNTERS_RATIO == (LROLL_HASH_RATIO * LROLL_CACHE_LINE) \div SizeofInt

Writers == 1..NumWriters
Readers == (NumWriters + 1)..(NumWriters + NumReaders)
Threads == Writers \cup Readers
\* the reader whose contains calls the history variables follow
Observer == NumWriters + 1
Keys == 1..MaxKey
\* the key of a thread that is in no call: a value that is no key
NoKey == MaxKey + 1

\* _readersLength and the indexes of the counters the code uses
readersLength == NumCores * LROLLS_COUNTERS_RATIO
Tids == {c * LROLLS_COUNTERS_RATIO : c \in 0..(NumCores - 1)}

VARIABLES
    set1, set2,              \* key sets of the two mirrors
    leftRight,               \* selector: READS_ON_LEFT or READS_ON_RIGHT
    versionIndex,            \* index of the counter array readers arrive at
    readersVersion0,         \* counters of version 0, by tid
    readersVersion1,         \* counters of version 1, by tid
    writersMutex,            \* set of the threads holding the mutex
    tidOf,                   \* thread_2_tid() of each thread calling contains()
    pc,                      \* per thread: the step it executes next
    op, key, ret,            \* per thread: call in progress and its result
    localVersionIndex,       \* per thread: local of arrive / toggleVersionAndWait
    localLeftRight,          \* per thread: value loaded from leftRight
    scanTid,                 \* per thread: loop variable of readIndicatorIsEmpty
    raced,                   \* per thread: its mirror query overlapped a mutation
    seen,                    \* history: memberships of its key the set had during
                             \*          the Observer's contains call
    settled,                 \* history: per key, membership fixed by a returned call
    expect,                  \* history: the settled membership of its key when the
                             \*          Observer's contains call began
    mset,                    \* history: mathematical set after all returned calls
    cohort,                  \* history: per thread, whether its contains call was
                             \*          counted in the next array when the writer
                             \*          holding the mutex began toggleVersionAndWait,
                             \*          or in the previous array when it stored the
                             \*          version index, and whether it has departed
    parity                   \* history: parity of the number of add and remove
                             \*          calls that have returned true

shared == <<set1, set2, leftRight, versionIndex, readersVersion0, readersVersion1>>
locals == <<pc, op, key, ret, localVersionIndex, localLeftRight, scanTid, raced>>
history == <<seen, settled, expect, mset, cohort, parity>>
vars == <<shared, writersMutex, tidOf, locals, history>>

\* -------------------------------------------- LinkedListSet (sequential set)
SetAdd(s, k) == s \cup {k}
SetAddResult(s, k) == k \notin s
SetRemove(s, k) == s \ {k}
SetRemoveResult(s, k) == k \in s
SetContains(s, k) == k \in s

Mutate(o, s, k) == IF o = "add" THEN SetAdd(s, k) ELSE SetRemove(s, k)
MutateResult(o, s, k) == IF o = "add" THEN SetAddResult(s, k) ELSE SetRemoveResult(s, k)

\* the mirror a selector value names, and the set readers are served from
Mirror(lr, s1, s2) == IF lr = READS_ON_LEFT THEN s1 ELSE s2
Other(lr) == IF lr = READS_ON_LEFT THEN READS_ON_RIGHT ELSE READS_ON_LEFT
Abstract == Mirror(leftRight, set1, set2)

ReaderPcs == {"arrive_inc", "load_lr", "query", "query_end", "depart"}
\* the steps of contains between the increment of readIndicatorArrive and the
\* decrement of readIndicatorDepart
CountedPcs == {"load_lr", "query", "query_end", "depart"}
TogglePcs == {"t_load", "wait_next", "t_store", "wait_prev"}
LockedPcs == {"w_load", "mut1", "mut1_end", "store", "mut2", "mut2_end", "unlock"}
                 \cup TogglePcs
WriterPcs == {"lock"} \cup LockedPcs

\* the mirror (as a selector value) thread t is mutating right now, or -1
Mutating(t) ==
    IF pc[t] = "mut1_end" THEN Other(localLeftRight[t])
    ELSE IF pc[t] = "mut2_end" THEN localLeftRight[t]
    ELSE -1

\* thread t is inside a non-atomic query of mirror m
Querying(t, m) == pc[t] = "query_end" /\ localLeftRight[t] = m

\* readers whose query of mirror m overlaps a mutation of m get raced = TRUE
RaceWith(m) == [u \in Threads |-> raced[u] \/ Querying(u, m)]

\* the contains call of thread t has incremented a counter of array v and not
\* yet decremented it
Counted(t, v) == pc[t] \in CountedPcs /\ localVersionIndex[t] = v

\* history: the calls counted in array v form the cohort named c
CohortOf(v, c) == [t \in Threads |-> IF Counted(t, v) THEN c ELSE "none"]

\* history: a departing call of a cohort is marked as gone
Departed(c) ==
    IF c = "next" THEN "nextGone" ELSE IF c = "prev" THEN "prevGone" ELSE c

\* history: the Observer's running contains call records the membership of its
\* key in the set readers are served from
Observe(lr, s1, s2) ==
    IF pc[Observer] \in ReaderPcs
    THEN seen \cup {key[Observer] \in Mirror(lr, s1, s2)}
    ELSE seen

TypeOK ==
    /\ set1 \subseteq Keys /\ set2 \subseteq Keys
    /\ leftRight \in {READS_ON_LEFT, READS_ON_RIGHT}
    /\ versionIndex \in {0, 1}
    /\ readersVersion0 \in [Tids -> Int]
    /\ readersVersion1 \in [Tids -> Int]
    /\ writersMutex \subseteq Threads
    /\ tidOf \in [Readers -> Tids]
    /\ pc \in [Threads -> {"idle"} \cup ReaderPcs \cup WriterPcs]
    /\ op \in [Threads -> {"none", "add", "remove", "contains"}]
    /\ key \in [Threads -> Keys \cup {NoKey}]
    /\ ret \in [Threads -> BOOLEAN]
    /\ localVersionIndex \in [Threads -> {0, 1}]
    /\ localLeftRight \in [Threads -> {READS_ON_LEFT, READS_ON_RIGHT}]
    /\ scanTid \in [Threads -> 0..readersLength]
    /\ raced \in [Threads -> BOOLEAN]
    /\ seen \subseteq BOOLEAN
    /\ settled \in [Keys -> {"unset", "in", "out"}]
    /\ expect \in {"unset", "in", "out"}
    /\ mset \subseteq Keys
    /\ cohort \in [Threads -> {"none", "next", "nextGone", "prev", "prevGone"}]
    /\ parity \in {0, 1}

\* ------------------------------------------------------------- constructor
Init ==
    /\ set1 = {} /\ set2 = {}
    /\ leftRight = READS_ON_LEFT
    /\ versionIndex = 0
    /\ readersVersion0 = [i \in Tids |-> 0]
    /\ readersVersion1 = [i \in Tids |-> 0]
    /\ writersMutex = {}
    /\ tidOf \in [Readers -> Tids]
    /\ pc = [t \in Threads |-> "idle"]
    /\ op = [t \in Threads |-> "none"]
    /\ key = [t \in Threads |-> NoKey]
    /\ ret = [t \in Threads |-> FALSE]
    /\ localVersionIndex = [t \in Threads |-> 0]
    /\ localLeftRight = [t \in Threads |-> READS_ON_LEFT]
    /\ scanTid = [t \in Threads |-> 0]
    /\ raced = [t \in Threads |-> FALSE]
    /\ seen = {}
    /\ settled = [k \in Keys |-> "unset"]
    /\ expect = "unset"
    /\ mset = {}
    /\ cohort = [t \in Threads |-> "none"]
    /\ parity = 0

\* ---------------------------------------------------------------- contains
\* contains(key) is called: tid = thread_2_tid(), then readIndicatorArrive:
\* int localVersionIndex = _versionIndex.load()
contains_call(t, k) ==
    /\ pc[t] = "idle"
    /\ pc' = [pc EXCEPT ![t] = "arrive_inc"]
    /\ op' = [op EXCEPT ![t] = "contains"]
    /\ key' = [key EXCEPT ![t] = k]
    /\ localVersionIndex' = [localVersionIndex EXCEPT ![t] = versionIndex]
    /\ seen' = IF t = Observer THEN {k \in Abstract} ELSE seen
    /\ expect' = IF t = Observer THEN settled[k] ELSE expect
    /\ UNCHANGED <<shared, writersMutex, tidOf, ret, localLeftRight, scanTid,
                   raced, settled, mset, cohort, parity>>

\* mutant: the branch of readIndicatorArrive reads _versionIndex again instead of
\* using the value loaded into localVersionIndex
readIndicatorArrive_inc_Reload(t) ==
    /\ pc[t] = "arrive_inc"
    /\ IF versionIndex = 0
       THEN /\ readersVersion0' =
                  [readersVersion0 EXCEPT ![tidOf[t]] = readersVersion0[tidOf[t]] + 1]
            /\ UNCHANGED readersVersion1
       ELSE /\ readersVersion1' =
                  [readersVersion1 EXCEPT ![tidOf[t]] = readersVersion1[tidOf[t]] + 1]
            /\ UNCHANGED readersVersion0
    /\ pc' = [pc EXCEPT ![t] = "load_lr"]
    /\ UNCHANGED <<set1, set2, leftRight, versionIndex, writersMutex, tidOf, op, key,
                   ret, localVersionIndex, localLeftRight, scanTid, raced, history>>

\* readIndicatorArrive: _readersVersionN[tid].fetch_add(1)
readIndicatorArrive_inc(t) ==
    /\ pc[t] = "arrive_inc"
    /\ IF localVersionIndex[t] = 0
       THEN /\ readersVersion0' =
                  [readersVersion0 EXCEPT ![tidOf[t]] = readersVersion0[tidOf[t]] + 1]
            /\ UNCHANGED readersVersion1
       ELSE /\ readersVersion1' =
                  [readersVersion1 EXCEPT ![tidOf[t]] = readersVersion1[tidOf[t]] + 1]
            /\ UNCHANGED readersVersion0
    /\ pc' = [pc EXCEPT ![t] = "load_lr"]
    /\ UNCHANGED <<set1, set2, leftRight, versionIndex, writersMutex, tidOf, op, key,
                   ret, localVersionIndex, localLeftRight, scanTid, raced, history>>

\* mutant: the reader loads the selector only while no writer holds the mutex
contains_loadLeftRight_Locked(t) ==
    /\ pc[t] = "load_lr"
    /\ writersMutex = {}
    /\ localLeftRight' = [localLeftRight EXCEPT ![t] = leftRight]
    /\ pc' = [pc EXCEPT ![t] = "query"]
    /\ UNCHANGED <<shared, writersMutex, tidOf, op, key, ret, localVersionIndex,
                   scanTid, raced, history>>

\* mutant: the reader is sent to the mirror the selector does not name
contains_loadLeftRight_Inverted(t) ==
    /\ pc[t] = "load_lr"
    /\ localLeftRight' = [localLeftRight EXCEPT ![t] = Other(leftRight)]
    /\ pc' = [pc EXCEPT ![t] = "query"]
    /\ UNCHANGED <<shared, writersMutex, tidOf, op, key, ret, localVersionIndex,
                   scanTid, raced, history>>

\* contains: _leftRight.load() == READS_ON_LEFT
contains_loadLeftRight(t) ==
    /\ pc[t] = "load_lr"
    /\ localLeftRight' = [localLeftRight EXCEPT ![t] = leftRight]
    /\ pc' = [pc EXCEPT ![t] = "query"]
    /\ UNCHANGED <<shared, writersMutex, tidOf, op, key, ret, localVersionIndex,
                   scanTid, raced, history>>

\* contains: the call _setN.contains(key) starts traversing the mirror
contains_queryBegin(t) ==
    /\ pc[t] = "query"
    /\ raced' = [raced EXCEPT ![t] =
                    \E w \in Threads : Mutating(w) = localLeftRight[t]]
    /\ pc' = [pc EXCEPT ![t] = "query_end"]
    /\ UNCHANGED <<shared, writersMutex, tidOf, op, key, ret, localVersionIndex,
                   localLeftRight, scanTid, history>>

\* contains: _setN.contains(key) returns; a traversal that overlapped a mutation
\* of the same mirror is a data race and may return either value
contains_queryEnd(t) ==
    /\ pc[t] = "query_end"
    /\ \E r \in (IF raced[t] THEN BOOLEAN
                 ELSE {SetContains(Mirror(localLeftRight[t], set1, set2), key[t])}) :
          ret' = [ret EXCEPT ![t] = r]
    /\ raced' = [raced EXCEPT ![t] = FALSE]
    /\ pc' = [pc EXCEPT ![t] = "depart"]
    /\ UNCHANGED <<shared, writersMutex, tidOf, op, key, localVersionIndex,
                   localLeftRight, scanTid, history>>

\* mutant: the departure stores zero in the counter instead of subtracting one,
\* which is the same when no two threads share a counter
readIndicatorDepart_StoreZero(t) ==
    /\ pc[t] = "depart"
    /\ IF localVersionIndex[t] = 0
       THEN /\ readersVersion0' = [readersVersion0 EXCEPT ![tidOf[t]] = 0]
            /\ UNCHANGED readersVersion1
       ELSE /\ readersVersion1' = [readersVersion1 EXCEPT ![tidOf[t]] = 0]
            /\ UNCHANGED readersVersion0
    /\ pc' = [pc EXCEPT ![t] = "idle"]
    /\ op' = [op EXCEPT ![t] = "none"]
    /\ key' = [key EXCEPT ![t] = NoKey]
    /\ ret' = [ret EXCEPT ![t] = FALSE]
    /\ localVersionIndex' = [localVersionIndex EXCEPT ![t] = 0]
    /\ localLeftRight' = [localLeftRight EXCEPT ![t] = READS_ON_LEFT]
    /\ seen' = IF t = Observer THEN {} ELSE seen
    /\ expect' = IF t = Observer THEN "unset" ELSE expect
    /\ cohort' = [cohort EXCEPT ![t] = Departed(cohort[t])]
    /\ UNCHANGED <<set1, set2, leftRight, versionIndex, writersMutex, tidOf,
                   scanTid, raced, settled, mset, parity>>

\* mutant: the decrement goes to the array of the version index current at the
\* departure instead of the one the arrival returned
readIndicatorDepart_CurrentVersion(t) ==
    /\ pc[t] = "depart"
    /\ IF versionIndex = 0
       THEN /\ readersVersion0' =
                  [readersVersion0 EXCEPT ![tidOf[t]] = readersVersion0[tidOf[t]] - 1]
            /\ UNCHANGED readersVersion1
       ELSE /\ readersVersion1' =
                  [readersVersion1 EXCEPT ![tidOf[t]] = readersVersion1[tidOf[t]] - 1]
            /\ UNCHANGED readersVersion0
    /\ pc' = [pc EXCEPT ![t] = "idle"]
    /\ op' = [op EXCEPT ![t] = "none"]
    /\ key' = [key EXCEPT ![t] = NoKey]
    /\ ret' = [ret EXCEPT ![t] = FALSE]
    /\ localVersionIndex' = [localVersionIndex EXCEPT ![t] = 0]
    /\ localLeftRight' = [localLeftRight EXCEPT ![t] = READS_ON_LEFT]
    /\ seen' = IF t = Observer THEN {} ELSE seen
    /\ expect' = IF t = Observer THEN "unset" ELSE expect
    /\ cohort' = [cohort EXCEPT ![t] = Departed(cohort[t])]
    /\ UNCHANGED <<set1, set2, leftRight, versionIndex, writersMutex, tidOf,
                   scanTid, raced, settled, mset, parity>>

\* readIndicatorDepart: _readersVersionN[tid].fetch_add(-1); return retValue
readIndicatorDepart(t) ==
    /\ pc[t] = "depart"
    /\ IF localVersionIndex[t] = 0
       THEN /\ readersVersion0' =
                  [readersVersion0 EXCEPT ![tidOf[t]] = readersVersion0[tidOf[t]] - 1]
            /\ UNCHANGED readersVersion1
       ELSE /\ readersVersion1' =
                  [readersVersion1 EXCEPT ![tidOf[t]] = readersVersion1[tidOf[t]] - 1]
            /\ UNCHANGED readersVersion0
    /\ pc' = [pc EXCEPT ![t] = "idle"]
    /\ op' = [op EXCEPT ![t] = "none"]
    /\ key' = [key EXCEPT ![t] = NoKey]
    /\ ret' = [ret EXCEPT ![t] = FALSE]
    /\ localVersionIndex' = [localVersionIndex EXCEPT ![t] = 0]
    /\ localLeftRight' = [localLeftRight EXCEPT ![t] = READS_ON_LEFT]
    /\ seen' = IF t = Observer THEN {} ELSE seen
    /\ expect' = IF t = Observer THEN "unset" ELSE expect
    /\ cohort' = [cohort EXCEPT ![t] = Departed(cohort[t])]
    /\ UNCHANGED <<set1, set2, leftRight, versionIndex, writersMutex, tidOf,
                   scanTid, raced, settled, mset, parity>>

\* ------------------------------------------------------------ add / remove
add_call(t, k) ==
    /\ pc[t] = "idle"
    /\ pc' = [pc EXCEPT ![t] = "lock"]
    /\ op' = [op EXCEPT ![t] = "add"]
    /\ key' = [key EXCEPT ![t] = k]
    /\ UNCHANGED <<shared, writersMutex, tidOf, ret, localVersionIndex,
                   localLeftRight, scanTid, raced, history>>

remove_call(t, k) ==
    /\ pc[t] = "idle"
    /\ pc' = [pc EXCEPT ![t] = "lock"]
    /\ op' = [op EXCEPT ![t] = "remove"]
    /\ key' = [key EXCEPT ![t] = k]
    /\ UNCHANGED <<shared, writersMutex, tidOf, ret, localVersionIndex,
                   localLeftRight, scanTid, raced, history>>

\* mutant: the lock is taken without waiting for it to be free
writer_lock_NoWait(t) ==
    /\ pc[t] = "lock"
    /\ writersMutex' = {t}
    /\ pc' = [pc EXCEPT ![t] = "w_load"]
    /\ UNCHANGED <<shared, tidOf, op, key, ret, localVersionIndex, localLeftRight,
                   scanTid, raced, history>>

\* std::lock_guard<std::mutex> lock(_writersMutex)
writer_lock(t) ==
    /\ pc[t] = "lock"
    /\ writersMutex = {}
    /\ writersMutex' = {t}
    /\ pc' = [pc EXCEPT ![t] = "w_load"]
    /\ UNCHANGED <<shared, tidOf, op, key, ret, localVersionIndex, localLeftRight,
                   scanTid, raced, history>>

\* mutant: the branches of the if are swapped, the writer starts on the mirror
\* the selector names
writer_loadLeftRight_Inverted(t) ==
    /\ pc[t] = "w_load"
    /\ localLeftRight' = [localLeftRight EXCEPT ![t] = Other(leftRight)]
    /\ pc' = [pc EXCEPT ![t] = "mut1"]
    /\ UNCHANGED <<shared, writersMutex, tidOf, op, key, ret, localVersionIndex,
                   scanTid, raced, history>>

\* if (_leftRight.load() == READS_ON_LEFT)
writer_loadLeftRight(t) ==
    /\ pc[t] = "w_load"
    /\ localLeftRight' = [localLeftRight EXCEPT ![t] = leftRight]
    /\ pc' = [pc EXCEPT ![t] = "mut1"]
    /\ UNCHANGED <<shared, writersMutex, tidOf, op, key, ret, localVersionIndex,
                   scanTid, raced, history>>

\* the call _set2.add(key) / _set1.add(key) on the mirror readers are not sent to
\* starts (remove likewise)
firstMutationBegin(t) ==
    /\ pc[t] = "mut1"
    /\ raced' = RaceWith(Other(localLeftRight[t]))
    /\ pc' = [pc EXCEPT ![t] = "mut1_end"]
    /\ UNCHANGED <<shared, writersMutex, tidOf, op, key, ret, localVersionIndex,
                   localLeftRight, scanTid, history>>

\* mutant: the result of the first mutation is ignored, as that of the second is
firstMutationEnd_IgnoreResult(t) ==
    /\ pc[t] = "mut1_end"
    /\ LET bg == Other(localLeftRight[t])
           s1 == IF bg = READS_ON_LEFT THEN Mutate(op[t], set1, key[t]) ELSE set1
           s2 == IF bg = READS_ON_RIGHT THEN Mutate(op[t], set2, key[t]) ELSE set2
       IN  /\ set1' = s1
           /\ set2' = s2
           /\ seen' = Observe(leftRight, s1, s2)
           /\ ret' = [ret EXCEPT ![t] = FALSE]
           /\ pc' = [pc EXCEPT ![t] = "store"]
    /\ UNCHANGED <<leftRight, versionIndex, readersVersion0, readersVersion1,
                   writersMutex, tidOf, op, key, localVersionIndex, localLeftRight,
                   scanTid, raced, settled, expect, mset, cohort, parity>>

\* mutant: the first mutation is made on the mirror the selector names
firstMutationEnd_Foreground(t) ==
    /\ pc[t] = "mut1_end"
    /\ LET fg == localLeftRight[t]
           ok == MutateResult(op[t], Mirror(fg, set1, set2), key[t])
           s1 == IF fg = READS_ON_LEFT THEN Mutate(op[t], set1, key[t]) ELSE set1
           s2 == IF fg = READS_ON_RIGHT THEN Mutate(op[t], set2, key[t]) ELSE set2
       IN  /\ set1' = s1
           /\ set2' = s2
           /\ seen' = Observe(leftRight, s1, s2)
           /\ ret' = [ret EXCEPT ![t] = FALSE]
           /\ pc' = [pc EXCEPT ![t] = IF ok THEN "store" ELSE "unlock"]
    /\ UNCHANGED <<leftRight, versionIndex, readersVersion0, readersVersion1,
                   writersMutex, tidOf, op, key, localVersionIndex, localLeftRight,
                   scanTid, raced, settled, expect, mset, cohort, parity>>

\* mutant: the return of false leaves the function without releasing the
\* mutex, as with lock() and unlock() written by hand
firstMutationEnd_NoRelease(t) ==
    /\ pc[t] = "mut1_end"
    /\ LET bg == Other(localLeftRight[t])
           ok == MutateResult(op[t], Mirror(bg, set1, set2), key[t])
           s1 == IF bg = READS_ON_LEFT THEN Mutate(op[t], set1, key[t]) ELSE set1
           s2 == IF bg = READS_ON_RIGHT THEN Mutate(op[t], set2, key[t]) ELSE set2
       IN  /\ set1' = s1
           /\ set2' = s2
           /\ seen' = Observe(leftRight, s1, s2)
           /\ ret' = [ret EXCEPT ![t] = FALSE]
           /\ pc' = [pc EXCEPT ![t] = IF ok THEN "store" ELSE "idle"]
    /\ UNCHANGED <<leftRight, versionIndex, readersVersion0, readersVersion1,
                   writersMutex, tidOf, op, key, localVersionIndex, localLeftRight,
                   scanTid, raced, settled, expect, mset, cohort, parity>>

\* ... and returns: if (!_setN.add(key)) return false
firstMutationEnd(t) ==
    /\ pc[t] = "mut1_end"
    /\ LET bg == Other(localLeftRight[t])
           ok == MutateResult(op[t], Mirror(bg, set1, set2), key[t])
           s1 == IF bg = READS_ON_LEFT THEN Mutate(op[t], set1, key[t]) ELSE set1
           s2 == IF bg = READS_ON_RIGHT THEN Mutate(op[t], set2, key[t]) ELSE set2
       IN  /\ set1' = s1
           /\ set2' = s2
           /\ seen' = Observe(leftRight, s1, s2)
           /\ ret' = [ret EXCEPT ![t] = FALSE]
           /\ pc' = [pc EXCEPT ![t] = IF ok THEN "store" ELSE "unlock"]
    /\ UNCHANGED <<leftRight, versionIndex, readersVersion0, readersVersion1,
                   writersMutex, tidOf, op, key, localVersionIndex, localLeftRight,
                   scanTid, raced, settled, expect, mset, cohort, parity>>

\* _leftRight.store(READS_ON_RIGHT) / _leftRight.store(READS_ON_LEFT)
writer_storeLeftRight(t) ==
    /\ pc[t] = "store"
    /\ leftRight' = Other(localLeftRight[t])
    /\ seen' = Observe(Other(localLeftRight[t]), set1, set2)
    /\ settled' = [settled EXCEPT ![key[t]] = "unset"]
    /\ expect' = IF key[Observer] = key[t] THEN "unset" ELSE expect
    /\ pc' = [pc EXCEPT ![t] = "t_load"]
    /\ UNCHANGED <<set1, set2, versionIndex, readersVersion0, readersVersion1,
                   writersMutex, tidOf, op, key, ret, localVersionIndex,
                   localLeftRight, scanTid, raced, mset, cohort, parity>>

\* toggleVersionAndWait: int localVersionIndex = _versionIndex.load()
toggle_load(t) ==
    /\ pc[t] = "t_load"
    /\ localVersionIndex' = [localVersionIndex EXCEPT ![t] = versionIndex]
    /\ scanTid' = [scanTid EXCEPT ![t] = 0]
    /\ cohort' = CohortOf((versionIndex + 1) % 2, "next")
    /\ pc' = [pc EXCEPT ![t] = "wait_next"]
    /\ UNCHANGED <<shared, writersMutex, tidOf, op, key, ret, localLeftRight,
                   raced, seen, settled, expect, mset, parity>>

prevVersionIndex(t) == localVersionIndex[t] % 2
nextVersionIndex(t) == (localVersionIndex[t] + 1) % 2

\* mutant: the scan returns after the first counter, as with a loop bound of
\* one slot
readIndicatorIsEmpty_step_FirstSlot(t, v, then) ==
    LET c == IF v = 0 THEN readersVersion0[scanTid[t]] ELSE readersVersion1[scanTid[t]]
    IN  IF c # 0
        THEN /\ scanTid' = [scanTid EXCEPT ![t] = 0]
             /\ pc' = pc
        ELSE /\ scanTid' = [scanTid EXCEPT ![t] = 0]
             /\ pc' = [pc EXCEPT ![t] = then]

\* readIndicatorIsEmpty: one load of the scan of array v.  A counter that is not
\* zero ends the scan with false: the caller yields and scans again from tid 0.
\* Past the last counter the scan returns true and the caller goes on to `then`.
readIndicatorIsEmpty_step(t, v, then) ==
    LET c == IF v = 0 THEN readersVersion0[scanTid[t]] ELSE readersVersion1[scanTid[t]]
        n == scanTid[t] + LROLLS_COUNTERS_RATIO
    IN  IF c # 0
        THEN /\ scanTid' = [scanTid EXCEPT ![t] = 0]
             /\ pc' = pc
        ELSE IF n < readersLength
        THEN /\ scanTid' = [scanTid EXCEPT ![t] = n]
             /\ pc' = pc
        ELSE /\ scanTid' = [scanTid EXCEPT ![t] = 0]
             /\ pc' = [pc EXCEPT ![t] = then]

\* mutant: the readers of the next version are not waited for
toggle_waitNext_NoWait(t) ==
    /\ pc[t] = "wait_next"
    /\ pc' = [pc EXCEPT ![t] = "t_store"]
    /\ UNCHANGED <<shared, writersMutex, tidOf, op, key, ret, localVersionIndex,
                   localLeftRight, scanTid, raced, history>>

\* while (!readIndicatorIsEmpty(nextVersionIndex)) yield
toggle_waitNext(t) ==
    /\ pc[t] = "wait_next"
    /\ readIndicatorIsEmpty_step(t, nextVersionIndex(t), "t_store")
    /\ UNCHANGED <<shared, writersMutex, tidOf, op, key, ret, localVersionIndex,
                   localLeftRight, raced, history>>

\* mutant: the version index is left as it was between the two drain loops
toggle_store_NoToggle(t) ==
    /\ pc[t] = "t_store"
    /\ pc' = [pc EXCEPT ![t] = "wait_prev"]
    /\ UNCHANGED <<shared, writersMutex, tidOf, op, key, ret, localVersionIndex,
                   localLeftRight, scanTid, raced, history>>

\* _versionIndex.store(nextVersionIndex)
toggle_store(t) ==
    /\ pc[t] = "t_store"
    /\ versionIndex' = nextVersionIndex(t)
    /\ cohort' = CohortOf(prevVersionIndex(t), "prev")
    /\ pc' = [pc EXCEPT ![t] = "wait_prev"]
    /\ UNCHANGED <<set1, set2, leftRight, readersVersion0, readersVersion1,
                   writersMutex, tidOf, op, key, ret, localVersionIndex,
                   localLeftRight, scanTid, raced, seen, settled, expect, mset,
                   parity>>

\* mutant: the readers of the previous version are not waited for
toggle_waitPrev_NoWait(t) ==
    /\ pc[t] = "wait_prev"
    /\ pc' = [pc EXCEPT ![t] = "mut2"]
    /\ UNCHANGED <<shared, writersMutex, tidOf, op, key, ret, localVersionIndex,
                   localLeftRight, scanTid, raced, history>>

\* while (!readIndicatorIsEmpty(prevVersionIndex)) yield
toggle_waitPrev(t) ==
    /\ pc[t] = "wait_prev"
    /\ readIndicatorIsEmpty_step(t, prevVersionIndex(t), "mut2")
    /\ UNCHANGED <<shared, writersMutex, tidOf, op, key, ret, localVersionIndex,
                   localLeftRight, raced, history>>

\* the call _set1.add(key) / _set2.add(key) on the mirror readers were sent to
\* before the store starts (remove likewise)
secondMutationBegin(t) ==
    /\ pc[t] = "mut2"
    /\ raced' = RaceWith(localLeftRight[t])
    /\ pc' = [pc EXCEPT ![t] = "mut2_end"]
    /\ UNCHANGED <<shared, writersMutex, tidOf, op, key, ret, localVersionIndex,
                   localLeftRight, scanTid, history>>

\* mutant: the second mutation is made on the mirror of the first one again
secondMutationEnd_SameMirror(t) ==
    /\ pc[t] = "mut2_end"
    /\ LET bg == Other(localLeftRight[t])
           s1 == IF bg = READS_ON_LEFT THEN Mutate(op[t], set1, key[t]) ELSE set1
           s2 == IF bg = READS_ON_RIGHT THEN Mutate(op[t], set2, key[t]) ELSE set2
       IN  /\ set1' = s1
           /\ set2' = s2
           /\ seen' = Observe(leftRight, s1, s2)
    /\ ret' = [ret EXCEPT ![t] = TRUE]
    /\ pc' = [pc EXCEPT ![t] = "unlock"]
    /\ UNCHANGED <<leftRight, versionIndex, readersVersion0, readersVersion1,
                   writersMutex, tidOf, op, key, localVersionIndex, localLeftRight,
                   scanTid, raced, settled, expect, mset, cohort, parity>>

\* mutant: the second mirror is left as it was
secondMutationEnd_Skipped(t) ==
    /\ pc[t] = "mut2_end"
    /\ ret' = [ret EXCEPT ![t] = TRUE]
    /\ pc' = [pc EXCEPT ![t] = "unlock"]
    /\ UNCHANGED <<shared, writersMutex, tidOf, op, key, localVersionIndex,
                   localLeftRight, scanTid, raced, history>>

\* ... and returns; its result is ignored; return true
secondMutationEnd(t) ==
    /\ pc[t] = "mut2_end"
    /\ LET fg == localLeftRight[t]
           s1 == IF fg = READS_ON_LEFT THEN Mutate(op[t], set1, key[t]) ELSE set1
           s2 == IF fg = READS_ON_RIGHT THEN Mutate(op[t], set2, key[t]) ELSE set2
       IN  /\ set1' = s1
           /\ set2' = s2
           /\ seen' = Observe(leftRight, s1, s2)
    /\ ret' = [ret EXCEPT ![t] = TRUE]
    /\ pc' = [pc EXCEPT ![t] = "unlock"]
    /\ UNCHANGED <<leftRight, versionIndex, readersVersion0, readersVersion1,
                   writersMutex, tidOf, op, key, localVersionIndex, localLeftRight,
                   scanTid, raced, settled, expect, mset, cohort, parity>>

\* the lock_guard releases _writersMutex and the call returns ret
writer_unlock(t) ==
    /\ pc[t] = "unlock"
    /\ writersMutex' = writersMutex \ {t}
    /\ mset' = IF op[t] = "add" THEN mset \cup {key[t]} ELSE mset \ {key[t]}
    /\ settled' = IF ret[t]
                  THEN [settled EXCEPT ![key[t]] = IF op[t] = "add" THEN "in" ELSE "out"]
                  ELSE settled
    /\ pc' = [pc EXCEPT ![t] = "idle"]
    /\ op' = [op EXCEPT ![t] = "none"]
    /\ key' = [key EXCEPT ![t] = NoKey]
    /\ ret' = [ret EXCEPT ![t] = FALSE]
    /\ localVersionIndex' = [localVersionIndex EXCEPT ![t] = 0]
    /\ localLeftRight' = [localLeftRight EXCEPT ![t] = READS_ON_LEFT]
    /\ cohort' = [u \in Threads |-> "none"]
    /\ parity' = IF ret[t] THEN (parity + 1) % 2 ELSE parity
    /\ UNCHANGED <<shared, tidOf, scanTid, raced, seen, expect>>

\* ------------------------------------------------------------ specification
\* One step of thread t inside a call
Step(t) ==
    \/ readIndicatorArrive_inc(t)
    \/ contains_loadLeftRight(t)
    \/ contains_queryBegin(t)
    \/ contains_queryEnd(t)
    \/ readIndicatorDepart(t)
    \/ writer_lock(t)
    \/ writer_loadLeftRight(t)
    \/ firstMutationBegin(t)
    \/ firstMutationEnd(t)
    \/ writer_storeLeftRight(t)
    \/ toggle_load(t)
    \/ toggle_waitNext(t)
    \/ toggle_store(t)
    \/ toggle_waitPrev(t)
    \/ secondMutationBegin(t)
    \/ secondMutationEnd(t)
    \/ writer_unlock(t)

\* The threads of W call add and remove, those of R call contains, on keys of K
NextOf(W, R, K) ==
    \/ \E t \in R : \E k \in K : contains_call(t, k)
    \/ \E t \in W : \E k \in K : add_call(t, k)
    \/ \E t \in W : \E k \in K : remove_call(t, k)
    \/ \E t \in Threads : Step(t)

\* every thread, every key
Next == NextOf(Writers, Readers, Keys)
Spec == Init /\ [][Next]_vars

\* every thread, all calls on one key: the interleavings of the protocol
ProtocolNext == NextOf(Writers, Readers, {1})
ProtocolSpec == Init /\ [][ProtocolNext]_vars

\* every writer and one reader, every key
KeysNext == NextOf(Writers, {Observer}, Keys)
KeysSpec == Init /\ [][KeysNext]_vars

\* one writer and every reader under fair scheduling: a thread that can take a
\* step of its call eventually takes one (no thread is required to start a call)
LiveNext == NextOf({1}, Readers, {1})
Fairness == \A t \in Threads : WF_vars(Step(t))
LiveSpec == Init /\ [][LiveNext]_vars /\ Fairness

\* every writer w adds the key w once, the readers call contains on every key
add_call_once(t) ==
    /\ t \notin mset
    /\ add_call(t, t)

AddNext ==
    \/ \E t \in Readers : \E k \in Keys : contains_call(t, k)
    \/ \E t \in Writers \cap Keys : add_call_once(t)
    \/ \E t \in Threads : Step(t)
AddSpec == Init /\ [][AddNext]_vars

\* one thread issuing add, remove and contains one after the other
SeqNext == NextOf({Observer}, {Observer}, Keys)
SeqSpec == Init /\ [][SeqNext]_vars

\* ------------------------------------------------------------------ claims
\* thread r has read the selector as naming mirror m and has not yet executed
\* the decrement of readIndicatorDepart
Consulting(r, m) ==
    /\ pc[r] \in {"query", "query_end", "depart"}
    /\ localLeftRight[r] = m

\* C1: no writer is inside a mutation of a mirror (the first mutation, of the
\* background mirror, or the second, after toggleVersionAndWait) while a reader
\* that read the selector as naming that mirror has not yet departed.
C1_ReaderWriterExclusion ==
    \A w \in Threads : \A r \in Threads :
        Mutating(w) # -1 => ~Consulting(r, Mutating(w))

\* a writer is inside its second mutation while one reader is inside the query
\* of the other mirror and another has loaded the version index but not yet
\* incremented its counter
C1_Witness ==
    \E w \in Writers : \E r1 \in Readers : \E r2 \in Readers :
        /\ pc[w] = "mut2_end"
        /\ pc[r1] = "query_end"
        /\ pc[r2] = "arrive_inc"

\* C2: a contains call of the Observer returns a membership its key had, in the
\* mirror the selector named, at some instant between its call and its return.
C2_NoTornReads ==
    pc[Observer] = "depart" => ret[Observer] \in seen

\* a contains call that overlapped a successful add returns the membership from
\* before the selector flip although the set now holds the key
C2_Witness ==
    /\ pc[Observer] = "depart"
    /\ seen = BOOLEAN
    /\ ret[Observer] = FALSE
    /\ key[Observer] \in Abstract

\* C3: with a single thread calling, add(k) returns true iff k was absent before
\* the call, remove(k) returns true iff k was present, and contains(k) returns
\* true iff k is in the mathematical set made by the calls that returned.
C3_SequentialCorrectness ==
    \A t \in Threads :
        /\ pc[t] = "unlock" /\ op[t] = "add" => ret[t] = (key[t] \notin mset)
        /\ pc[t] = "unlock" /\ op[t] = "remove" => ret[t] = (key[t] \in mset)
        /\ pc[t] = "depart" => ret[t] = (key[t] \in mset)

\* an add of a key is about to return false with every key already added
C3_Witness ==
    /\ pc[Observer] = "unlock"
    /\ op[Observer] = "add"
    /\ ret[Observer] = FALSE
    /\ mset = Keys

\* C4: a contains(k) called after a successful add(k) returned, and returning
\* before any later successful mutation of k has flipped the selector, returns
\* true; after a successful remove(k) returned, likewise, it returns false.
C4_StabilityAfterReturn ==
    pc[Observer] = "depart" =>
        /\ expect = "in" => ret[Observer] = TRUE
        /\ expect = "out" => ret[Observer] = FALSE

\* contains(k) returns true after add(k) returned, while a remove(k) has made its
\* first mutation and not yet flipped the selector
C4_Witness ==
    /\ pc[Observer] = "depart"
    /\ expect = "in"
    /\ ret[Observer] = TRUE
    /\ \E w \in Writers :
          pc[w] = "store" /\ op[w] = "remove" /\ key[w] = key[Observer]

\* the step a thread inside contains takes next
ReaderSucc(p) ==
    IF p = "arrive_inc" THEN "load_lr"
    ELSE IF p = "load_lr" THEN "query"
    ELSE IF p = "query" THEN "query_end"
    ELSE IF p = "query_end" THEN "depart"
    ELSE "idle"

\* a thread inside contains holds no mutex and can take its next step
C5_Enabled ==
    \A t \in Threads :
        pc[t] \in ReaderPcs =>
            /\ t \notin writersMutex
            /\ ENABLED (Step(t) /\ pc'[t] = ReaderSucc(pc[t]))

\* a thread inside contains only ever moves to its next step
C5_Advances ==
    \A t \in Threads :
        pc[t] \in ReaderPcs /\ pc'[t] # pc[t] => pc'[t] = ReaderSucc(pc[t])

\* C5: whatever the other threads are doing, a thread inside contains holds no
\* lock and has an enabled step, and each of its steps takes it to the next of
\* increment, load of the selector, query, decrement and return: it never
\* waits, loops or retries.
C5_ContainsWaitFree == []C5_Enabled /\ [][C5_Advances]_vars

\* a reader is about to load the selector while a writer holds the mutex and
\* spins in the second drain loop on a counter another reader holds
C5_Witness ==
    \E w \in Writers : \E r1 \in Readers : \E r2 \in Readers :
        /\ pc[w] = "wait_prev"
        /\ pc[r1] = "load_lr"
        /\ pc[r2] = "query_end"
        /\ localVersionIndex[r2] = prevVersionIndex(w)

\* C6: under fair scheduling a writer that has entered toggleVersionAndWait
\* leaves both drain loops and its add/remove returns, also when the readers
\* keep calling contains without pause.
C6_WriterProgress ==
    \A w \in Writers : (pc[w] \in TogglePcs) ~> (pc[w] = "idle")

\* a writer spins in the first drain loop on a counter of the next version
\* that a reader holds, while another reader is arriving
C6_Witness ==
    \E w \in Writers : \E r1 \in Readers : \E r2 \in Readers :
        /\ pc[w] = "wait_next"
        /\ pc[r1] \in {"load_lr", "query", "query_end", "depart"}
        /\ localVersionIndex[r1] = nextVersionIndex(w)
        /\ pc[r2] = "arrive_inc"

\* the keys added in AddSpec, one by each writer
Adders == Writers \cap Keys

\* C7: when the writers concurrently add pairwise distinct keys, with readers
\* running alongside, every add returns true; once all have returned both
\* mirrors hold every added key, and a contains(k) called after add(k) returned
\* returns true.
C7_NoLostUpdates ==
    /\ \A t \in Writers : pc[t] = "unlock" => ret[t] = TRUE
    /\ Adders \subseteq mset => Adders \subseteq set1 /\ Adders \subseteq set2
    /\ pc[Observer] = "depart" /\ expect = "in" => ret[Observer] = TRUE

\* two adds have returned and a contains called after them is about to return
C7_Witness ==
    /\ Cardinality(Adders) >= 2
    /\ Adders \subseteq mset
    /\ \A t \in Writers : pc[t] = "idle"
    /\ pc[Observer] = "depart"
    /\ expect = "in"
    /\ ret[Observer] = TRUE

\* C8: at most one thread is between acquiring _writersMutex and returning from
\* add/remove, and that thread is the one holding the mutex.
C8_WriterMutualExclusion ==
    /\ Cardinality({t \in Threads : pc[t] \in LockedPcs}) <= 1
    /\ \A t \in Threads : pc[t] \in LockedPcs <=> t \in writersMutex

\* one writer is inside toggleVersionAndWait while another waits for the mutex
C8_Witness ==
    \E w1 \in Writers : \E w2 \in Writers :
        /\ pc[w1] \in TogglePcs
        /\ pc[w2] = "lock"

\* the call of t finds its key present (add) or absent (remove)
NoOpCase(t) ==
    \/ op[t] = "add" /\ key[t] \in Abstract
    \/ op[t] = "remove" /\ key[t] \notin Abstract

\* the steps of a call up to a failed first mutation, and its return, leave the
\* shared state but the mutex alone, and the failed call goes straight to return
C9_Frame ==
    \A t \in Threads :
        /\ pc[t] \in {"lock", "w_load", "mut1"} /\ pc'[t] # pc[t]
              => UNCHANGED shared
        /\ pc[t] = "mut1_end" /\ pc'[t] # pc[t] /\ NoOpCase(t)
              => pc'[t] = "unlock" /\ ret'[t] = FALSE /\ UNCHANGED shared
        /\ pc[t] = "unlock" /\ ret[t] = FALSE /\ pc'[t] # pc[t]
              => pc'[t] = "idle" /\ UNCHANGED shared

\* the end of the first mutation and the return wait for nothing
C9_NoWait ==
    \A t \in Threads :
        pc[t] \in {"mut1_end", "unlock"} => ENABLED Step(t)

\* C9: an add of a present key and a remove of an absent key go from the first
\* mutation straight to the return of false; no step of the call changes the
\* selector, the version index, a mirror or a counter, and no step of it waits.
C9_NoOpOutcome == []C9_NoWait /\ [][C9_Frame]_vars

\* a call is about to return false while a reader stays inside its query
C9_Witness ==
    \E w \in Writers : \E r \in Readers :
        /\ pc[w] = "unlock" /\ ret[w] = FALSE
        /\ pc[r] = "query_end"

\* after the end of the first mutation, before the end of the second
BetweenMutations ==
    {"store", "t_load", "wait_next", "t_store", "wait_prev", "mut2", "mut2_end"}

\* C10: with the mutex free both mirrors hold the same keys; with the mutex held
\* they differ at most in the key of the call holding it, and only after its
\* first mutation and before the end of its second.
C10_MirrorConvergence ==
    /\ writersMutex = {} => set1 = set2
    /\ \A t \in Threads :
          t \in writersMutex =>
            /\ (set1 \ set2) \cup (set2 \ set1) \subseteq {key[t]}
            /\ set1 # set2 => pc[t] \in BetweenMutations

\* the mirrors differ in one key while both hold another key
C10_Witness ==
    /\ set1 # set2
    /\ set1 \cap set2 # {}
    /\ \E t \in Writers : pc[t] = "wait_prev" /\ op[t] = "remove"

\* the contains calls that have incremented slot i of array v and not yet
\* decremented it
InFlight(v, i) == {t \in Threads : Counted(t, v) /\ tidOf[t] = i}

\* C11: each counter of each array equals the number of contains calls that
\* have incremented that slot of that array and not yet decremented it, so no
\* counter is negative; this also holds for calls counted in the array the
\* version index no longer names.
C11_CounterAccounting ==
    \A i \in Tids :
        /\ readersVersion0[i] = Cardinality(InFlight(0, i))
        /\ readersVersion1[i] = Cardinality(InFlight(1, i))
        /\ readersVersion0[i] >= 0
        /\ readersVersion1[i] >= 0

\* two calls are counted in one slot of the array the version index named
\* before a writer toggled it, and one of them is about to decrement it
C11_Witness ==
    \E i \in Tids : \E r \in Readers : \E w \in Writers :
        /\ Cardinality(InFlight((versionIndex + 1) % 2, i)) = 2
        /\ r \in InFlight((versionIndex + 1) % 2, i)
        /\ pc[r] = "depart"
        /\ pc[w] = "wait_prev"

\* the step is the load of _versionIndex, the fetch_add(1), by thread t
LoadsIndex(t) == pc[t] = "idle" /\ pc'[t] = "arrive_inc"
Increments(t) == pc[t] = "arrive_inc" /\ pc'[t] = "load_lr"

\* the step adds one to the counter of thread t in array v and leaves every
\* other counter alone
ArrivesAt(t, v) ==
    IF v = 0
    THEN /\ readersVersion0' =
               [readersVersion0 EXCEPT ![tidOf[t]] = readersVersion0[tidOf[t]] + 1]
         /\ readersVersion1' = readersVersion1
    ELSE /\ readersVersion1' =
               [readersVersion1 EXCEPT ![tidOf[t]] = readersVersion1[tidOf[t]] + 1]
         /\ readersVersion0' = readersVersion0

\* C12 as stated: at the instant a reader's increment takes effect, the array
\* incremented is that of the value _versionIndex has at that instant, and the
\* value the arrival returns is that value.
C12_ArriveAtomic ==
    [][\A t \in Threads :
          Increments(t) =>
              /\ ArrivesAt(t, versionIndex)
              /\ localVersionIndex'[t] = versionIndex]_vars

\* C12 amended: the arrival loads _versionIndex and increments in a later step;
\* the value loaded is the one current at the load, no step in between changes
\* it, the array incremented is that of the value loaded, whatever
\* _versionIndex has become, and the value returned is the value loaded.
C12_ArriveOnLoadedIndex ==
    [][\A t \in Threads :
          /\ LoadsIndex(t) => localVersionIndex'[t] = versionIndex
          /\ pc[t] = "arrive_inc" => localVersionIndex'[t] = localVersionIndex[t]
          /\ Increments(t) => ArrivesAt(t, localVersionIndex[t])]_vars

\* a reader has incremented the array that the version index does not name: no
\* writer holds the mutex, so the last toggle waited until that array was
\* empty, and the increment came after it
C12_Witness ==
    /\ writersMutex = {}
    /\ \E r \in Readers :
          /\ pc[r] = "load_lr"
          /\ localVersionIndex[r] # versionIndex

\* C13: when toggleVersionAndWait has returned, every contains call that was
\* counted in the previous array at the writer's store of the version index
\* has executed its decrement, and no reader that read the selector as naming
\* the mirror of before the flip is still between that read and its decrement;
\* the scan that decided it read the counters one at a time.
C13_PrevDrained ==
    \A w \in Threads :
        pc[w] = "mut2" =>
            \A r \in Threads :
                /\ cohort[r] # "prev"
                /\ ~Consulting(r, localLeftRight[w])

\* toggleVersionAndWait has returned: a call counted at the store has
\* departed, and a call in another slot that incremented the same array after
\* the store is still counted there
C13_Witness ==
    \E w \in Writers : \E r1 \in Readers : \E r2 \in Readers :
        /\ pc[w] = "mut2"
        /\ cohort[r1] = "prevGone"
        /\ cohort[r2] = "none"
        /\ Counted(r2, prevVersionIndex(w))
        /\ tidOf[r1] # tidOf[r2]

\* C14: when toggleVersionAndWait is about to store the next version index, no
\* contains call that was counted in the next array when this call of
\* toggleVersionAndWait began (its load of the version index) is still
\* counted; a call counted there now incremented after that, hence after this
\* writer's flip of the selector.
C14_NextDrained ==
    \A w \in Threads :
        pc[w] = "t_store" => \A r \in Threads : cohort[r] # "next"

\* the first drain loop has ended: a call counted in the next array when
\* toggleVersionAndWait began has departed, and a call that incremented that
\* array later is counted there
C14_Witness ==
    \E w \in Writers : \E r1 \in Readers : \E r2 \in Readers :
        /\ pc[w] = "t_store"
        /\ cohort[r1] = "nextGone"
        /\ cohort[r2] = "none"
        /\ Counted(r2, nextVersionIndex(w))

\* the step a thread inside a successful add or remove takes next
WriterSucc(p) ==
    IF p = "lock" THEN "w_load"
    ELSE IF p = "w_load" THEN "mut1"
    ELSE IF p = "mut1" THEN "mut1_end"
    ELSE IF p = "mut1_end" THEN "store"
    ELSE IF p = "store" THEN "t_load"
    ELSE IF p = "t_load" THEN "wait_next"
    ELSE IF p = "wait_next" THEN "t_store"
    ELSE IF p = "t_store" THEN "wait_prev"
    ELSE IF p = "wait_prev" THEN "mut2"
    ELSE IF p = "mut2" THEN "mut2_end"
    ELSE IF p = "mut2_end" THEN "unlock"
    ELSE "idle"

\* no writer is inside a mutation of the mirror the selector names
C15_Target == \A w \in Threads : Mutating(w) # leftRight

\* a thread inside add or remove only moves to the next step of the protocol
\* (or from a failed first mutation to the return); the first mutation changes
\* the mirror the selector does not name, the flip names that mirror, the
\* second mutation changes the other one, and no step changes the mirror the
\* selector names or a mirror together with the selector
C15_Order ==
    /\ \A t \in Threads :
          /\ pc[t] \in WriterPcs /\ pc'[t] # pc[t]
                => \/ pc'[t] = WriterSucc(pc[t])
                   \/ pc[t] = "mut1_end" /\ pc'[t] = "unlock"
          /\ pc[t] = "mut1_end" /\ pc'[t] = "store"
                => Mirror(Other(leftRight), set1', set2') =
                       Mutate(op[t], Mirror(Other(leftRight), set1, set2), key[t])
          /\ pc[t] = "store" /\ pc'[t] = "t_load"
                => leftRight' = Other(leftRight)
          /\ pc[t] = "mut2_end" /\ pc'[t] = "unlock"
                => Mirror(Other(leftRight), set1', set2') =
                       Mutate(op[t], Mirror(Other(leftRight), set1, set2), key[t])
    /\ leftRight' = leftRight
          => Mirror(leftRight, set1', set2') = Mirror(leftRight, set1, set2)
    /\ leftRight' # leftRight => set1' = set1 /\ set2' = set2

\* C15: a successful add or remove goes through lock, first mutation on the
\* mirror the selector does not name, flip of the selector to that mirror,
\* toggleVersionAndWait, second mutation on the other mirror, unlock, in this
\* order; in every state the mirror the selector names is not being mutated.
C15_WriterProtocol == []C15_Target /\ [][C15_Order]_vars

\* a writer is inside its second mutation while the reader is inside a query
\* of the mirror the selector names and another writer waits for the mutex
C15_Witness ==
    \E w1 \in Writers : \E w2 \in Writers :
        /\ pc[w1] = "mut2_end"
        /\ pc[w2] = "lock"
        /\ Querying(Observer, leftRight)
        /\ set1 # set2

\* C16: in an add or remove whose first mutation returned true, the second
\* mutation, on the mirror readers were sent to before the flip, finds the key
\* absent (add) or present (remove) and so returns true as well; when the call
\* is about to return true both mirrors agree on the key.
C16_SecondMutationSucceeds ==
    \A w \in Threads :
        /\ pc[w] \in {"mut2", "mut2_end"}
              => MutateResult(op[w], Mirror(localLeftRight[w], set1, set2), key[w])
        /\ pc[w] = "unlock" /\ ret[w]
              => /\ (key[w] \in set1) = (op[w] = "add")
                 /\ (key[w] \in set2) = (op[w] = "add")

\* a remove is inside its second mutation while an add of the same key waits
\* for the mutex and the reader is inside a query for that key
C16_Witness ==
    \E w1 \in Writers : \E w2 \in Writers :
        /\ pc[w1] = "mut2_end" /\ op[w1] = "remove"
        /\ pc[w2] = "lock" /\ op[w2] = "add" /\ key[w2] = key[w1]
        /\ pc[Observer] = "query_end" /\ key[Observer] = key[w1]

\* every thread calling contains uses the same counter
SharedSlot == \A r1 \in Readers : \A r2 \in Readers : tidOf[r1] = tidOf[r2]

\* no query of a mirror overlaps a mutation of that mirror
C17_NoOverlap ==
    \A w \in Threads : \A r \in Threads :
        /\ ~raced[r]
        /\ Mutating(w) # -1 => ~Querying(r, Mutating(w))

\* C17: whatever counters thread_2_tid gives the readers (Init draws every
\* assignment, from all readers on one counter to each on its own), no query
\* overlaps a mutation of the same mirror and, under fair scheduling, each of
\* the two drain loops of a writer ends.
C17_SlotCollisions ==
    /\ []C17_NoOverlap
    /\ \A w \in Writers :
          /\ (pc[w] = "wait_next") ~> (pc[w] = "t_store")
          /\ (pc[w] = "wait_prev") ~> (pc[w] = "mut2")

\* the readers share one counter, both are counted in it in the array that the
\* writer's second drain loop scans, and one of them is inside its query
C17_Witness ==
    \E w \in Writers : \E i \in Tids :
        /\ SharedSlot
        /\ pc[w] = "wait_prev"
        /\ Cardinality(InFlight(prevVersionIndex(w), i)) = 2
        /\ \E r \in Readers : pc[r] = "query_end"

\* C18: a thread that is not between the lock and the return of add or remove
\* does not hold the mutex; the return, after true and after false alike, is
\* enabled and leaves the mutex free; and when no thread is inside add or
\* remove, a thread waiting for the mutex can take it.
C18_LockReleased ==
    /\ \A t \in Threads : pc[t] \notin LockedPcs => t \notin writersMutex
    /\ \A t \in Threads :
          pc[t] = "unlock" =>
              /\ ENABLED writer_unlock(t)
              /\ ~ENABLED (Step(t) /\ writersMutex' # {})
    /\ (\A t \in Threads : pc[t] \notin LockedPcs)
          => \A w \in Threads : pc[w] = "lock" => ENABLED writer_lock(w)

\* an add that found its key present is about to return false while another
\* writer waits for the mutex
C18_Witness ==
    \E w1 \in Writers : \E w2 \in Writers :
        /\ pc[w1] = "unlock" /\ ret[w1] = FALSE /\ op[w1] = "add"
        /\ pc[w2] = "lock"

\* the step is a step of the contains call of thread t; the step is its
\* fetch_add(-1)
ContainsStep(t) == pc'[t] # pc[t] /\ (pc[t] \in ReaderPcs \/ pc'[t] \in ReaderPcs)
Decrements(t) == pc[t] = "depart" /\ pc'[t] = "idle"

\* the step subtracts one from the counter of thread t in array v and leaves
\* every other counter alone
DepartsAt(t, v) ==
    IF v = 0
    THEN /\ readersVersion0' =
               [readersVersion0 EXCEPT ![tidOf[t]] = readersVersion0[tidOf[t]] - 1]
         /\ readersVersion1' = readersVersion1
    ELSE /\ readersVersion1' =
               [readersVersion1 EXCEPT ![tidOf[t]] = readersVersion1[tidOf[t]] - 1]
         /\ readersVersion0' = readersVersion0

\* C19: a step that changes the selector or the version index is a step of a
\* thread that holds the mutex before and after it; a step of contains leaves
\* the selector, the version index and both mirrors unchanged; of the steps of
\* a contains call only the increment and the decrement change a counter, by
\* +1 and -1 on the same counter of the same array, the call keeping its slot
\* and its version index in between, so a completed call changes no counter.
C19_MutationAuthority ==
    [][/\ (leftRight' # leftRight \/ versionIndex' # versionIndex)
             => \E t \in writersMutex : pc'[t] # pc[t] /\ t \in writersMutex'
       /\ \A t \in Threads :
             /\ ContainsStep(t) => UNCHANGED <<leftRight, versionIndex, set1, set2>>
             /\ ContainsStep(t) /\ ~Increments(t) /\ ~Decrements(t)
                   => UNCHANGED <<readersVersion0, readersVersion1>>
             /\ Increments(t) => ArrivesAt(t, localVersionIndex'[t])
             /\ pc[t] \in CountedPcs /\ pc'[t] \in CountedPcs
                   => localVersionIndex'[t] = localVersionIndex[t]
             /\ Decrements(t) => DepartsAt(t, localVersionIndex[t])
       /\ tidOf' = tidOf]_vars

\* a reader is about to decrement the array the version index no longer names
\* while a writer holding the mutex is inside its second mutation and another
\* writer waits for the mutex
C19_Witness ==
    \E w1 \in Writers : \E w2 \in Writers : \E r \in Readers :
        /\ pc[w1] = "mut2_end" /\ w1 \in writersMutex
        /\ pc[w2] = "lock"
        /\ pc[r] = "depart"
        /\ localVersionIndex[r] # versionIndex

\* C20: the selector and the version index are 0 or 1; while no thread holds
\* the mutex they are equal, and equal to the parity of the number of calls of
\* add and remove that returned true (0 after construction); a call about to
\* return true has flipped both, a call about to return false neither.
C20_SelectorEpochCoupling ==
    /\ leftRight \in {0, 1}
    /\ versionIndex \in {0, 1}
    /\ writersMutex = {} => leftRight = parity /\ versionIndex = parity
    /\ \A w \in Threads :
          pc[w] = "unlock" =>
              IF ret[w]
              THEN leftRight = (parity + 1) % 2 /\ versionIndex = (parity + 1) % 2
              ELSE leftRight = parity /\ versionIndex = parity

\* after an odd number of successful calls a remove is about to return true
\* while a reader is counted in the array the version index no longer names
C20_Witness ==
    \E w \in Writers : \E r \in Readers :
        /\ pc[w] = "unlock" /\ ret[w] /\ op[w] = "remove"
        /\ parity = 1
        /\ Counted(r, (versionIndex + 1) % 2)

====
